---- MODULE Spec2Model ----
(***************************************************************************)
(* Model of supabase-migration-cli.py: main(), SupabaseMigrator.connect,   *)
(* close, get_tables, get_table_info, table_exists, migrate_table and      *)
(* migrate, together with the part of the two PostgreSQL sessions the code *)
(* relies on (transaction state, ON CONFLICT DO NOTHING, commit/rollback). *)
(***************************************************************************)
EXTENDS Integers, Sequences, FiniteSets, TLC

(* ------------------------------ bounds -------------------------------- *)
\* longest requested table list (--tables)
MaxPlan == 3
\* most rows held by a source table
MaxRows == 5
\* largest --batch-size
MaxBatch == 2
\* number of times the same command line is run
MaxRuns == 2

(* ------------------------------ names --------------------------------- *)
None == "None"
\* None where a list is expected (TLC compares lists with lists only); no table
\* bears this name
NoList == <<None>>

\* base tables of the source's public schema
BaseTables == {"a", "b", "pg_x", "pgx", "_prisma_m"}
\* names a caller may put in --tables ("g", "h" exist nowhere)
ReqNames == {"a", "b", "g", "h"}
\* names of tables the destination may hold
DestNames == {"a", "b", "x"}
\* key values of rows
Keys == {1, 2}

Chars(n) ==
  CASE n = "a" -> <<"a">>
    [] n = "b" -> <<"b">>
    [] n = "g" -> <<"g">>
    [] n = "h" -> <<"h">>
    [] n = "x" -> <<"x">>
    [] n = "pg_x" -> <<"p", "g", "_", "x">>
    [] n = "pgx" -> <<"p", "g", "x">>
    [] n = "_prisma_m" -> <<"_", "p", "r", "i", "s", "m", "a", "_", "m">>
    [] n = "pg_%" -> <<"p", "g", "_", "%">>
    [] n = "_prisma%" -> <<"_", "p", "r", "i", "s", "m", "a", "%">>

\* byte value of a character (ORDER BY on a "name" column compares bytes)
Ord(c) ==
  CASE c = "_" -> 95 [] c = "a" -> 97 [] c = "b" -> 98 [] c = "g" -> 103
    [] c = "h" -> 104 [] c = "i" -> 105 [] c = "m" -> 109 [] c = "p" -> 112
    [] c = "r" -> 114 [] c = "s" -> 115 [] c = "x" -> 120

(* ------------------------- PostgreSQL helpers ------------------------- *)
\* s LIKE p: % matches any run of characters, _ any one character
RECURSIVE Like(_, _)
Like(s, p) ==
  IF p = <<>> THEN s = <<>>
  ELSE IF Head(p) = "%" THEN Like(s, Tail(p)) \/ (s # <<>> /\ Like(Tail(s), p))
  ELSE s # <<>> /\ (Head(p) = "_" \/ Head(p) = Head(s)) /\ Like(Tail(s), Tail(p))

RECURSIVE CharsLess(_, _)
CharsLess(s, t) ==
  IF t = <<>> THEN FALSE
  ELSE IF s = <<>> THEN TRUE
  ELSE IF Head(s) # Head(t) THEN Ord(Head(s)) < Ord(Head(t))
  ELSE CharsLess(Tail(s), Tail(t))

\* the elements of S in ascending order of name
RECURSIVE OrderByName(_)
OrderByName(S) ==
  IF S = {} THEN <<>>
  ELSE LET m == CHOOSE x \in S : \A y \in S \ {x} : CharsLess(Chars(x), Chars(y))
       IN <<m>> \o OrderByName(S \ {m})

\* a row is <<key, payload>>; the destination's uniqueness constraint, when the
\* table has one, is on the key
Key(r) == r[1]

Conflicts(tbl, r) == tbl.unique /\ \E i \in 1..Len(tbl.rows) : Key(tbl.rows[i]) = Key(r)

\* as InsertOne, on a destination that does not enforce the constraint
InsertOneAlways(tbl, r) == [tbl |-> [tbl EXCEPT !.rows = Append(@, r)], err |-> "none"]

\* as InsertOne, without the ON CONFLICT DO NOTHING clause
InsertOnePlain(tbl, r) ==
  IF Conflicts(tbl, r)
    THEN [tbl |-> tbl, err |-> "unique_violation"]
    ELSE [tbl |-> [tbl EXCEPT !.rows = Append(@, r)], err |-> "none"]

\* one statement of the batch: INSERT ... ON CONFLICT DO NOTHING (lines 124-128)
InsertOne(tbl, r) ==
  IF Conflicts(tbl, r)
    THEN [tbl |-> tbl, err |-> "none"]
    ELSE [tbl |-> [tbl EXCEPT !.rows = Append(@, r)], err |-> "none"]

\* cursor.executemany: one statement per row, in order, stopping at the first
\* statement that raises; statement number j (if any) is rejected by the server
\* for a reason of its own (type mismatch, other constraint, lost connection)
RECURSIVE ExecMany(_, _, _)
ExecMany(tbl, rs, j) ==
  IF ~tbl.exists THEN [tbl |-> tbl, err |-> "undefined_table"]
  ELSE IF rs = <<>> THEN [tbl |-> tbl, err |-> "none"]
  ELSE IF j = 1 THEN [tbl |-> tbl, err |-> "rejected"]
  ELSE LET one == InsertOne(tbl, Head(rs))
       IN IF one.err # "none" THEN one ELSE ExecMany(one.tbl, Tail(rs), j - 1)

Take(s, n) == SubSeq(s, 1, IF n < Len(s) THEN n ELSE Len(s))
Drop(s, n) == SubSeq(s, (IF n < Len(s) THEN n ELSE Len(s)) + 1, Len(s))

RECURSIVE Filter(_, _)
Filter(s, S) ==
  IF s = <<>> THEN <<>>
  ELSE (IF Head(s) \in S THEN <<Head(s)>> ELSE <<>>) \o Filter(Tail(s), S)

Range(s) == {s[i] : i \in 1..Len(s)}

(* ------------------------------- state -------------------------------- *)
VARIABLES
  pc,               \* position in main() / migrate() / migrate_table()
  run,              \* which execution of the command line this is
  src,              \* source database: base table -> its rows, in storage order
  dst,              \* destination database, committed: name -> table or Absent
  dst_tx,           \* the destination as seen inside dest_conn's open transaction
  source_conn,      \* migrator.source_conn: None, "open", "closed"
  dest_conn,        \* migrator.dest_conn
  source_tx,        \* transaction status of source_conn: idle, intrans, failed
  dest_tx,          \* transaction status of dest_conn
  args_tables,      \* --tables as parsed by main(): None or a list
  selected_tables,  \* migrate()'s selected_tables
  table_mappings,   \* --mappings: the set of <<source, destination>> pairs
  skip_existing,    \* --skip-existing
  batch_size,       \* --batch-size
  idx,              \* index of the plan entry the for loops are at
  dest_table,       \* migrate()'s dest_table for the current entry
  buffer,           \* rows of source_cursor not fetched yet
  rows,             \* migrate_table()'s rows (the batch in hand)
  rows_migrated,    \* migrate_table()'s counter
  total_rows,       \* migrate()'s counter
  answer,           \* the line read at the confirmation prompt while line 191-192
                    \* works on it, None before and after
  out,              \* what the run printed that decides its result
  hist              \* record of what the run did (reads, inserts, outcomes)

vars == <<pc, run, src, dst, dst_tx, source_conn, dest_conn, source_tx, dest_tx,
          args_tables, selected_tables, table_mappings, skip_existing, batch_size,
          idx, dest_table, buffer, rows, rows_migrated, total_rows, answer, out,
          hist>>

Absent == [exists |-> FALSE, unique |-> FALSE, rows |-> <<>>]
Table(u, rs) == [exists |-> TRUE, unique |-> u, rows |-> rs]

KeySeqs(n) == UNION {[1..m -> Keys] : m \in 0..n}
RowsOf(t, ks) == [i \in 1..Len(ks) |-> <<ks[i], t>>]
Plans(n) == UNION {[1..m -> ReqNames] : m \in 1..n}

NoOut == [reason |-> "none", missing |-> <<>>, tables |-> 0, rows |-> 0]
NoHist == [selects |-> <<>>, inserts |-> <<>>, outcome |-> <<>>, progress |-> <<>>,
           dst0 |-> <<>>, dstT |-> <<>>, confirmed |-> FALSE, validated |-> FALSE,
           interrupted |-> FALSE]

(* ------------------------------- inputs ------------------------------- *)
\* as MapName, never consulting the mapping
MapNameIdentity(m, s) == s

\* table_mappings.get(source_table, source_table) if table_mappings else source_table
MapName(m, s) == IF DOMAIN m # {} THEN (IF s \in DOMAIN m THEN m[s] ELSE s) ELSE s

NoMapping == <<>>
Mappings == {NoMapping, "a" :> "x"}

\* what the operator may type at the table prompt, split and stripped (line 166)
TypedLists == {<<>>, <<"a">>, <<"g">>, <<"b", "a">>}

\* a destination table the run may find: missing, keyed and holding an older
\* version of row 1, or without any uniqueness constraint
OldRow == <<1, "old">>
DstOptions == {Absent, Table(TRUE, <<OldRow>>), Table(FALSE, <<>>)}
DstOptionsWide == DstOptions \cup {Table(TRUE, <<>>), Table(FALSE, <<OldRow>>)}

EmptySource == [t \in BaseTables |-> <<>>]

InitRun ==
  /\ pc = "connect_source"
  /\ source_conn = None /\ dest_conn = None
  /\ source_tx = "idle" /\ dest_tx = "idle"
  /\ selected_tables = args_tables
  /\ idx = 0 /\ dest_table = None
  /\ buffer = <<>> /\ rows = <<>>
  /\ rows_migrated = 0 /\ total_rows = 0
  /\ answer = None
  /\ out = NoOut
  /\ dst_tx = dst
  /\ hist = [NoHist EXCEPT !.dst0 = dst]

\* requests that name a table get_tables leaves out
SystemPlans == {<<"pgx">>, <<"pg_x">>, <<"_prisma_m">>, <<"a", "pgx">>}

\* runs over several tables, each table small
PlanInputs ==
  /\ args_tables \in {NoList} \cup Plans(MaxPlan) \cup SystemPlans
  /\ table_mappings \in Mappings
  /\ skip_existing \in BOOLEAN
  /\ batch_size \in 1..MaxBatch
  /\ src = [EmptySource EXCEPT !["a"] = RowsOf("a", <<1, 2>>), !["b"] = RowsOf("b", <<1>>)]
  /\ \E da \in DstOptions, db \in DstOptions :
       dst = [d \in DestNames |->
                IF d = MapName(table_mappings, "a") THEN da
                ELSE IF d = "b" THEN db ELSE Absent]

\* runs over one table, of any content
DataInputs ==
  /\ args_tables = <<"a">>
  /\ table_mappings = NoMapping
  /\ skip_existing \in BOOLEAN
  /\ batch_size \in 1..MaxBatch
  /\ \E ks \in KeySeqs(MaxRows) : src = [EmptySource EXCEPT !["a"] = RowsOf("a", ks)]
  /\ \E da \in DstOptionsWide : dst = [d \in DestNames |-> IF d = "a" THEN da ELSE Absent]

Init == run = 1 /\ (PlanInputs \/ DataInputs) /\ InitRun

(* ------------------------- SupabaseMigrator --------------------------- *)
\* get_tables (lines 46-60)
get_tables ==
  OrderByName({t \in BaseTables : ~Like(Chars(t), Chars("pg_%"))
                                  /\ ~Like(Chars(t), Chars("_prisma%"))})

\* as table_exists, asking the source connection
table_exists_in_source(name) == name \in BaseTables

\* as table_exists, with the result of EXISTS negated
table_missing(name) == ~(name \in DOMAIN dst_tx /\ dst_tx[name].exists)

\* table_exists (lines 87-99), evaluated inside dest_conn's transaction
table_exists(name) == name \in DOMAIN dst_tx /\ dst_tx[name].exists

DestTable(name) == IF name \in DOMAIN dst_tx THEN dst_tx[name] ELSE Absent

\* as InvalidTables, stopping at the first name that is not found
InvalidTablesFirst(selected, all_tables) ==
  Take(Filter(selected, Range(selected) \ Range(all_tables)), 1)

\* [t for t in selected_tables if t not in all_tables] (line 170)
InvalidTables(selected, all_tables) == Filter(selected, Range(selected) \ Range(all_tables))

\* as fetchmany, taking everything the cursor holds (fetchall)
fetchall(buf, size) == buf

\* source_cursor.fetchmany(size) on what the cursor still holds (line 118)
fetchmany(buf, size) == Take(buf, size)

\* leaving the try block of main() towards its finally clause
Leave(reason) ==
  /\ pc' = "finally"
  /\ out' = [out EXCEPT !.reason = reason]

\* as Advance, stepping over the entry that follows
AdvanceSkipNext ==
  /\ idx' = idx + 2
  /\ pc' = IF idx + 1 >= Len(selected_tables) THEN "summary" ELSE "for_table"

\* the end of one iteration of the for loop of migrate() (line 200)
Advance ==
  /\ idx' = idx + 1
  /\ pc' = IF idx = Len(selected_tables) THEN "summary" ELSE "for_table"

Outcome(result, n) ==
  [entry |-> idx, source |-> selected_tables[idx], dest |-> dest_table,
   result |-> result, rows |-> n]

\* connect(), source half (lines 23-29)
ConnectSource ==
  /\ pc = "connect_source"
  /\ \E ok \in BOOLEAN :
       IF ok THEN /\ source_conn' = "open"
                  /\ pc' = "connect_dest"
                  /\ out' = out
             ELSE /\ source_conn' = source_conn
                  /\ Leave("connect_failed")
  /\ UNCHANGED <<run, src, dst, dst_tx, dest_conn, source_tx, dest_tx, args_tables,
                 selected_tables, table_mappings, skip_existing, batch_size, idx,
                 dest_table, buffer, rows, rows_migrated, total_rows, hist,
                 answer>>

\* connect(), destination half (lines 31-37)
ConnectDest ==
  /\ pc = "connect_dest"
  /\ \E ok \in BOOLEAN :
       IF ok THEN /\ dest_conn' = "open"
                  /\ pc' = "resolve"
                  /\ out' = out
             ELSE /\ dest_conn' = dest_conn
                  /\ Leave("connect_failed")
  /\ UNCHANGED <<run, src, dst, dst_tx, source_conn, source_tx, dest_tx, args_tables,
                 selected_tables, table_mappings, skip_existing, batch_size, idx,
                 dest_table, buffer, rows, rows_migrated, total_rows, hist,
                 answer>>

\* migrate(), a table list was given (lines 167-177)
ResolveRequested ==
  /\ pc = "resolve"
  /\ selected_tables # NoList
  /\ \E fault \in BOOLEAN :
       IF fault
         THEN /\ source_tx' = "failed"
              /\ Leave("error")
              /\ UNCHANGED <<idx, hist>>
         ELSE LET all_tables == get_tables
                  invalid_tables == InvalidTables(selected_tables, all_tables)
              IN /\ source_tx' = "intrans"
                 /\ IF invalid_tables # <<>>
                      THEN /\ pc' = "finally"
                           /\ out' = [out EXCEPT !.reason = "invalid_tables",
                                                 !.missing = invalid_tables]
                           /\ UNCHANGED <<idx, hist>>
                      ELSE IF selected_tables = <<>>
                        THEN /\ Leave("no_tables")
                             /\ UNCHANGED <<idx, hist>>
                        ELSE /\ pc' = "table_info"
                             /\ idx' = 1
                             /\ out' = out
                             /\ hist' = [hist EXCEPT !.validated = TRUE]
  /\ UNCHANGED <<run, src, dst, dst_tx, source_conn, dest_conn, dest_tx, args_tables,
                 selected_tables, table_mappings, skip_existing, batch_size,
                 dest_table, buffer, rows, rows_migrated, total_rows,
                 answer>>

\* migrate(), no table list was given: the operator is asked (lines 154-166, 175-177)
ResolveInteractive ==
  /\ pc = "resolve"
  /\ selected_tables = NoList
  /\ \E fault \in BOOLEAN :
       IF fault
         THEN /\ source_tx' = "failed"
              /\ Leave("error")
              /\ UNCHANGED <<idx, selected_tables>>
         ELSE /\ source_tx' = "intrans"
              /\ \E typed \in {get_tables} \cup TypedLists :
                   /\ selected_tables' = typed
                   /\ IF typed = <<>>
                        THEN Leave("no_tables") /\ idx' = idx
                        ELSE pc' = "table_info" /\ idx' = 1 /\ out' = out
  /\ UNCHANGED <<run, src, dst, dst_tx, source_conn, dest_conn, dest_tx, args_tables,
                 table_mappings, skip_existing, batch_size, dest_table, buffer, rows,
                 rows_migrated, total_rows, hist,
                 answer>>

\* migrate(), one iteration of the table information loop (lines 183-186)
TableInfo ==
  /\ pc = "table_info"
  /\ \E fault \in BOOLEAN :
       IF fault \/ selected_tables[idx] \notin BaseTables \/ source_tx = "failed"
         THEN /\ source_tx' = "failed"
              /\ Leave("error")
              /\ idx' = idx
         ELSE /\ source_tx' = "intrans"
              /\ idx' = idx + 1
              /\ pc' = IF idx = Len(selected_tables) THEN "confirm" ELSE "table_info"
              /\ out' = out
  /\ UNCHANGED <<run, src, dst, dst_tx, source_conn, dest_conn, dest_tx, args_tables,
                 selected_tables, table_mappings, skip_existing, batch_size,
                 dest_table, buffer, rows, rows_migrated, total_rows, hist,
                 answer>>

\* as StripLower, keeping the first word of the answer only
StripLowerFirstWord(a) ==
  CASE a = " Yes " -> "yes"
    [] a = "Y" -> "y"
    [] a = "yes please" -> "yes"
    [] OTHER -> a

\* answers at the confirmation prompt and what .strip().lower() makes of them
ConfirmInputs == {"yes", "y", " Yes ", "Y", "no", "", "yes please"}
StripLower(a) ==
  CASE a = " Yes " -> "yes"
    [] a = "Y" -> "y"
    [] OTHER -> a

\* migrate(), the confirmation prompt: input() returns (lines 189-191)
Confirm ==
  /\ pc = "confirm"
  /\ answer' \in ConfirmInputs
  /\ pc' = "confirm_test"
  /\ UNCHANGED <<run, src, dst, dst_tx, source_conn, dest_conn, source_tx, dest_tx,
                 args_tables, selected_tables, table_mappings, skip_existing,
                 batch_size, idx, dest_table, buffer, rows, rows_migrated,
                 total_rows, out, hist>>

\* migrate(), the answer is normalised and tested (lines 191-198)
ConfirmTest ==
  /\ pc = "confirm_test"
  /\ IF StripLower(answer) \in {"yes", "y"}
       THEN /\ pc' = "for_table"
            /\ idx' = 1
            /\ total_rows' = 0
            /\ out' = out
            /\ hist' = [hist EXCEPT !.confirmed = TRUE]
       ELSE /\ Leave("cancelled")
            /\ UNCHANGED <<idx, total_rows, hist>>
  /\ answer' = None
  /\ UNCHANGED <<run, src, dst, dst_tx, source_conn, dest_conn, source_tx, dest_tx,
                 args_tables, selected_tables, table_mappings, skip_existing,
                 batch_size, dest_table, buffer, rows, rows_migrated>>

\* migrate(), head of the copy loop: destination name and the skip test
\* (lines 200-207)
ForTable ==
  /\ pc = "for_table"
  /\ LET source_table == selected_tables[idx]
         name == MapName(table_mappings, source_table)
     IN /\ dest_table' = name
        /\ IF skip_existing
             THEN \E fault \in BOOLEAN :
                    IF fault \/ dest_tx = "failed"
                      THEN /\ dest_tx' = "failed"
                           /\ Leave("error")
                           /\ UNCHANGED <<idx, hist>>
                      ELSE /\ dest_tx' = "intrans"
                           /\ out' = out
                           /\ IF table_exists(name)
                                THEN /\ Advance
                                     /\ hist' = [hist EXCEPT !.outcome =
                                          Append(@, [entry |-> idx, source |-> source_table,
                                                     dest |-> name, result |-> "skipped",
                                                     rows |-> 0])]
                                ELSE /\ pc' = "select"
                                     /\ UNCHANGED <<idx, hist>>
             ELSE /\ pc' = "select"
                  /\ UNCHANGED <<idx, hist, dest_tx, out>>
  /\ UNCHANGED <<run, src, dst, dst_tx, source_conn, dest_conn, source_tx, args_tables,
                 selected_tables, table_mappings, skip_existing, batch_size, buffer,
                 rows, rows_migrated, total_rows,
                 answer>>

\* migrate_table(), up to the loop: the SELECT on the source (lines 103-116);
\* an error is caught by migrate() (lines 212-214)
Select ==
  /\ pc = "select"
  /\ LET source_table == selected_tables[idx]
     IN \E fault \in BOOLEAN :
          IF fault \/ source_table \notin BaseTables \/ source_tx = "failed"
            THEN /\ source_tx' = "failed"
                 /\ hist' = [hist EXCEPT !.outcome = Append(@, Outcome("failure", 0))]
                 /\ Advance
                 /\ UNCHANGED <<buffer, rows, rows_migrated>>
            ELSE /\ source_tx' = "intrans"
                 /\ buffer' = src[source_table]
                 /\ rows_migrated' = 0
                 /\ rows' = <<>>
                 /\ hist' = [hist EXCEPT !.selects = Append(@, <<idx, source_table>>),
                                         !.dstT = dst]
                 /\ pc' = "fetch"
                 /\ idx' = idx
  /\ UNCHANGED <<run, src, dst, dst_tx, source_conn, dest_conn, dest_tx, args_tables,
                 selected_tables, table_mappings, skip_existing, batch_size,
                 dest_table, total_rows, out,
                 answer>>

\* migrate_table(), fetchmany and the loop exit (lines 117-120, 140-143), and
\* migrate() adding the returned count (lines 210-211)
Fetch ==
  /\ pc = "fetch"
  /\ rows' = fetchmany(buffer, batch_size)
  /\ buffer' = Drop(buffer, Len(rows'))
  /\ IF rows' = <<>>
       THEN /\ total_rows' = total_rows + rows_migrated
            /\ hist' = [hist EXCEPT !.outcome = Append(@, Outcome("success", rows_migrated))]
            /\ rows_migrated' = 0
            /\ Advance
       ELSE /\ pc' = "executemany"
            /\ UNCHANGED <<total_rows, hist, idx, rows_migrated>>
  /\ UNCHANGED <<run, src, dst, dst_tx, source_conn, dest_conn, source_tx, dest_tx,
                 args_tables, selected_tables, table_mappings, skip_existing,
                 batch_size, dest_table, out,
                 answer>>

\* migrate_table(), dest_cursor.executemany(insert_query, rows) (lines 122-131)
ExecuteMany ==
  /\ pc = "executemany"
  /\ \E j \in 0..Len(rows) :
       LET res == IF dest_tx = "failed"
                    THEN [tbl |-> DestTable(dest_table), err |-> "in_failed_transaction"]
                    ELSE ExecMany(DestTable(dest_table), rows, j)
       IN /\ dst_tx' = IF dest_table \in DOMAIN dst_tx
                         THEN [dst_tx EXCEPT ![dest_table] = res.tbl] ELSE dst_tx
          /\ dest_tx' = IF res.err = "none" THEN "intrans" ELSE "failed"
          /\ pc' = IF res.err = "none" THEN "commit" ELSE "insert_failed"
          /\ hist' = [hist EXCEPT !.inserts =
                        Append(@, [entry |-> idx, source |-> selected_tables[idx],
                                   dest |-> dest_table, rows |-> rows, err |-> res.err])]
  /\ UNCHANGED <<run, src, dst, source_conn, dest_conn, source_tx, args_tables,
                 selected_tables, table_mappings, skip_existing, batch_size, idx,
                 dest_table, buffer, rows, rows_migrated, total_rows, out,
                 answer>>

\* as Commit, counting the batch size instead of the rows of the batch
CommitCountsBatchSize ==
  /\ pc = "commit"
  /\ dst' = dst_tx
  /\ dest_tx' = "idle"
  /\ rows_migrated' = rows_migrated + batch_size
  /\ hist' = [hist EXCEPT !.progress = Append(@, <<idx, rows_migrated'>>)]
  /\ pc' = "fetch"
  /\ UNCHANGED <<run, src, dst_tx, source_conn, dest_conn, source_tx, args_tables,
                 selected_tables, table_mappings, skip_existing, batch_size, idx,
                 dest_table, buffer, rows, total_rows, out,
                 answer>>

\* migrate_table(), commit, count, progress line (lines 132-134)
Commit ==
  /\ pc = "commit"
  /\ dst' = dst_tx
  /\ dest_tx' = "idle"
  /\ rows_migrated' = rows_migrated + Len(rows)
  /\ hist' = [hist EXCEPT !.progress = Append(@, <<idx, rows_migrated'>>)]
  /\ pc' = "fetch"
  /\ UNCHANGED <<run, src, dst_tx, source_conn, dest_conn, source_tx, args_tables,
                 selected_tables, table_mappings, skip_existing, batch_size, idx,
                 dest_table, buffer, rows, total_rows, out,
                 answer>>

\* as InsertFailed, with migrate() letting the error through instead of going on
InsertFailedAbort ==
  /\ pc = "insert_failed"
  /\ dst_tx' = dst
  /\ dest_tx' = "idle"
  /\ Leave("error")
  /\ buffer' = <<>> /\ rows' = <<>> /\ rows_migrated' = 0
  /\ UNCHANGED <<run, src, dst, source_conn, dest_conn, source_tx, args_tables,
                 selected_tables, table_mappings, skip_existing, batch_size, idx,
                 dest_table, total_rows, hist,
                 answer>>

\* as InsertFailed, without self.dest_conn.rollback()
InsertFailedNoRollback ==
  /\ pc = "insert_failed"
  /\ hist' = [hist EXCEPT !.outcome = Append(@, Outcome("failure", rows_migrated))]
  /\ Advance
  /\ buffer' = <<>> /\ rows' = <<>> /\ rows_migrated' = 0
  /\ UNCHANGED <<run, src, dst, dst_tx, dest_tx, source_conn, dest_conn, source_tx,
                 args_tables, selected_tables, table_mappings, skip_existing,
                 batch_size, dest_table, total_rows, out,
                 answer>>

\* as InsertFailed, with migrate() adding the rows of the batches committed
\* before the failure to its total
InsertFailedCounted ==
  /\ pc = "insert_failed"
  /\ dst_tx' = dst
  /\ dest_tx' = "idle"
  /\ hist' = [hist EXCEPT !.outcome = Append(@, Outcome("failure", rows_migrated))]
  /\ Advance
  /\ total_rows' = total_rows + rows_migrated
  /\ buffer' = <<>> /\ rows' = <<>> /\ rows_migrated' = 0
  /\ UNCHANGED <<run, src, dst, source_conn, dest_conn, source_tx, args_tables,
                 selected_tables, table_mappings, skip_existing, batch_size,
                 dest_table, out,
                 answer>>

\* migrate_table(), the except clause: rollback and re-raise (lines 135-138),
\* which ends the call and its locals; migrate() catches the error and goes on
\* with the next table (lines 212-214)
InsertFailed ==
  /\ pc = "insert_failed"
  /\ dst_tx' = dst
  /\ dest_tx' = "idle"
  /\ hist' = [hist EXCEPT !.outcome = Append(@, Outcome("failure", rows_migrated))]
  /\ Advance
  /\ buffer' = <<>> /\ rows' = <<>> /\ rows_migrated' = 0
  /\ UNCHANGED <<run, src, dst, source_conn, dest_conn, source_tx, args_tables,
                 selected_tables, table_mappings, skip_existing, batch_size,
                 dest_table, total_rows, out,
                 answer>>

\* migrate(), the summary (lines 216-224)
Summary ==
  /\ pc = "summary"
  /\ out' = [out EXCEPT !.reason = "summary", !.tables = Len(selected_tables),
                        !.rows = total_rows]
  /\ pc' = "finally"
  /\ UNCHANGED <<run, src, dst, dst_tx, source_conn, dest_conn, source_tx, dest_tx,
                 args_tables, selected_tables, table_mappings, skip_existing,
                 batch_size, idx, dest_table, buffer, rows, rows_migrated,
                 total_rows, hist,
                 answer>>

(* ------------------------------- main() ------------------------------- *)
\* positions inside the try block of main() (lines 314-321)
TryPcs == {"connect_source", "connect_dest", "resolve", "table_info", "confirm",
           "confirm_test", "for_table", "select", "fetch", "executemany", "commit", "insert_failed",
           "summary"}

\* positions inside migrate_table() (lines 103-143)
CopyPcs == {"select", "fetch", "executemany", "commit", "insert_failed"}

\* as KeyboardInterrupt, were the two handlers written with a bare except: an
\* interrupt inside migrate_table() is rolled back and counted as a failed table
KeyboardInterruptCaught ==
  /\ pc \in TryPcs
  /\ IF pc \in CopyPcs
       THEN /\ dst_tx' = dst
            /\ dest_tx' = "idle"
            /\ hist' = [hist EXCEPT !.interrupted = TRUE,
                                    !.outcome = Append(@, Outcome("failure", rows_migrated))]
            /\ Advance
            /\ out' = out
       ELSE /\ Leave("interrupted")
            /\ hist' = [hist EXCEPT !.interrupted = TRUE]
            /\ UNCHANGED <<dst_tx, dest_tx, idx>>
  /\ UNCHANGED <<run, src, dst, source_conn, dest_conn, source_tx,
                 args_tables, selected_tables, table_mappings, skip_existing,
                 batch_size, dest_table, buffer, rows, rows_migrated,
                 total_rows,
                 answer>>

\* Ctrl-C while the try block runs: KeyboardInterrupt is no Exception, so it
\* passes the handlers of lines 135 and 212 and reaches except KeyboardInterrupt
\* (lines 322-324)
KeyboardInterrupt ==
  /\ pc \in TryPcs
  /\ Leave("interrupted")
  /\ hist' = [hist EXCEPT !.interrupted = TRUE]
  /\ UNCHANGED <<run, src, dst, dst_tx, source_conn, dest_conn, source_tx, dest_tx,
                 args_tables, selected_tables, table_mappings, skip_existing,
                 batch_size, idx, dest_table, buffer, rows, rows_migrated,
                 total_rows,
                 answer>>

\* connection.close(): the server drops whatever the session has not committed
CloseConn(c) == IF c = "open" THEN "closed" ELSE c

\* as Close, with the second test of close() written elif
CloseElif ==
  /\ pc = "finally"
  /\ source_conn' = (IF source_conn # None THEN CloseConn(source_conn) ELSE source_conn)
  /\ dest_conn' = (IF source_conn = None /\ dest_conn # None
                     THEN CloseConn(dest_conn) ELSE dest_conn)
  /\ dst_tx' = dst
  /\ source_tx' = "idle"
  /\ dest_tx' = "idle"
  /\ pc' = "exit"
  /\ UNCHANGED <<run, src, dst, args_tables, selected_tables, table_mappings,
                 skip_existing, batch_size, idx, dest_table, buffer, rows,
                 rows_migrated, total_rows, out, hist,
                 answer>>

\* finally: migrator.close() (lines 328-329, 39-44), then the process ends
Close ==
  /\ pc = "finally"
  /\ source_conn' = (IF source_conn # None THEN CloseConn(source_conn) ELSE source_conn)
  /\ dest_conn' = (IF dest_conn # None THEN CloseConn(dest_conn) ELSE dest_conn)
  /\ dst_tx' = dst
  /\ source_tx' = "idle"
  /\ dest_tx' = "idle"
  /\ pc' = "exit"
  /\ UNCHANGED <<run, src, dst, args_tables, selected_tables, table_mappings,
                 skip_existing, batch_size, idx, dest_table, buffer, rows,
                 rows_migrated, total_rows, out, hist,
                 answer>>

\* the operator runs the same command line again after a run that ended with
\* its summary and no failed table
CleanRun ==
  /\ out.reason = "summary"
  /\ \A i \in 1..Len(hist.outcome) : hist.outcome[i].result # "failure"

Rerun ==
  /\ pc = "exit"
  /\ run < MaxRuns
  /\ CleanRun
  /\ run' = run + 1
  /\ pc' = "connect_source"
  /\ source_conn' = None /\ dest_conn' = None
  /\ selected_tables' = args_tables
  /\ idx' = 0 /\ dest_table' = None
  /\ buffer' = <<>> /\ rows' = <<>>
  /\ rows_migrated' = 0 /\ total_rows' = 0
  /\ answer' = None
  /\ out' = NoOut
  /\ hist' = [NoHist EXCEPT !.dst0 = dst]
  /\ UNCHANGED <<src, dst, dst_tx, source_tx, dest_tx, args_tables, table_mappings,
                 skip_existing, batch_size>>

Next ==
  \/ ConnectSource
  \/ ConnectDest
  \/ ResolveRequested
  \/ ResolveInteractive
  \/ TableInfo
  \/ Confirm
  \/ ConfirmTest
  \/ ForTable
  \/ Select
  \/ Fetch
  \/ ExecuteMany
  \/ Commit
  \/ InsertFailed
  \/ Summary
  \/ KeyboardInterrupt
  \/ Close
  \/ Rerun

Spec == Init /\ [][Next]_vars

(* ------------------------------- claims ------------------------------- *)
Last(s) == s[Len(s)]
Rows(tbl) == Range(tbl.rows)
InsertsOf(e) == SelectSeq(hist.inserts, LAMBDA x : x.entry = e)
\* what a run that reached its summary did with each plan entry, in plan order
Summarised ==
  /\ out.reason = "summary"
  /\ Len(hist.outcome) = Len(selected_tables)
  /\ \A e \in 1..Len(hist.outcome) : hist.outcome[e].entry = e

\* a failed batch insert of entry e does not end the run: the handler is about
\* to run, or Ctrl-C came first, or migrate() recorded the failure and moved on
FailureIsolated ==
  \A k \in 1..Len(hist.inserts) :
    hist.inserts[k].err # "none" =>
      LET e == hist.inserts[k].entry
      IN \/ pc = "insert_failed" /\ idx = e
         \/ out.reason = "interrupted" /\ idx = e
         \/ /\ idx > e
            /\ Len(hist.outcome) >= e
            /\ hist.outcome[e].entry = e
            /\ hist.outcome[e].result = "failure"

\* C1 (as amended): a failed batch insert never ends the run: migrate() goes on
\* with the next plan entry, a run that reaches its summary has dealt with every
\* entry, and then every table copied without error has each source row at the
\* destination, except the rows ON CONFLICT DO NOTHING skipped because the
\* destination table already held a row with the same key.
C1_PartialFailureIsolation ==
  /\ FailureIsolated
  /\ out.reason = "summary" => Summarised
  /\ out.reason = "summary" =>
       \A e \in 1..Len(hist.outcome) :
         hist.outcome[e].result = "success" =>
           LET o == hist.outcome[e]
           IN \A r \in Range(src[o.source]) :
                \/ r \in Rows(dst[o.dest])
                \/ /\ dst[o.dest].unique
                   /\ \E q \in Rows(dst[o.dest]) : Key(q) = Key(r)

\* C1 as stated: ... every table copied without error has all of its source rows
\* at the destination when the run ends.
C1_AllSourceRowsPresent ==
  /\ FailureIsolated
  /\ out.reason = "summary" => Summarised
  /\ out.reason = "summary" =>
       \A e \in 1..Len(hist.outcome) :
         hist.outcome[e].result = "success" =>
           \A r \in Range(src[hist.outcome[e].source]) :
             r \in Rows(dst[hist.outcome[e].dest])

\* a run of three entries whose second entry failed on a batch insert and whose
\* first and third entries were copied
C1_Witness ==
  /\ Summarised
  /\ Len(hist.outcome) = 3
  /\ hist.outcome[1].result = "success" /\ hist.outcome[1].rows > 0
  /\ hist.outcome[2].result = "failure"
  /\ \E k \in 1..Len(hist.inserts) :
       hist.inserts[k].entry = 2 /\ hist.inserts[k].err = "rejected"
  /\ hist.outcome[3].result = "success" /\ hist.outcome[3].rows > 0

\* the rows of `prefix` that ON CONFLICT DO NOTHING lets into table tbl: all of
\* them without a uniqueness constraint, else the first row of each key the
\* table did not hold
KeptAt(tbl, prefix) ==
  {p \in 1..Len(prefix) :
     \/ ~tbl.unique
     \/ /\ \A q \in Rows(tbl) : Key(q) # Key(prefix[p])
        /\ \A p2 \in 1..(p - 1) : Key(prefix[p2]) # Key(prefix[p])}
Kept(tbl, prefix) ==
  LET P == KeptAt(tbl, prefix)
  IN [i \in 1..Cardinality(P) |->
        prefix[CHOOSE p \in P : Cardinality({q \in P : q < p}) = i - 1]]

\* the copy started last is the one whose batch insert failed last
LastCopyFailed ==
  /\ hist.inserts # <<>> /\ hist.selects # <<>>
  /\ Last(hist.inserts).err # "none"
  /\ Last(hist.selects)[1] = Last(hist.inserts).entry

\* C2: a batch is one destination transaction. When the insert of batch k of a
\* table fails, the transaction is rolled back before migrate() sees the error,
\* no later batch of that table is issued, and the destination table holds what
\* it held before the copy plus the rows of batches 1..k-1 (those not skipped as
\* duplicates), and nothing of batch k or later; no other table changed.
C2_BatchAtomicity ==
  /\ \A k \in 1..Len(hist.inserts) : \A k2 \in (k + 1)..Len(hist.inserts) :
       hist.inserts[k].entry = hist.inserts[k2].entry => hist.inserts[k].err = "none"
  /\ pc \in {"for_table", "select", "fetch", "executemany", "summary"} =>
       dest_tx # "failed" /\ dst_tx = dst
  /\ LastCopyFailed =>
       LET f == Last(hist.inserts)
           k == Len(InsertsOf(f.entry))
           before == hist.dstT[f.dest]
           done == Take(src[f.source], (k - 1) * batch_size)
       IN /\ dst[f.dest].rows = before.rows \o Kept(before, done)
          /\ \A d \in DestNames \ {f.dest} : dst[d] = hist.dstT[d]

\* the second batch of a table was rejected after its first batch had put rows
\* into the destination, and migrate() has recorded the failure
C2_Witness ==
  /\ LastCopyFailed
  /\ Last(hist.inserts).err = "rejected"
  /\ Len(InsertsOf(Last(hist.inserts).entry)) = 2
  /\ hist.outcome # <<>>
  /\ Last(hist.outcome).entry = Last(hist.inserts).entry
  /\ Last(hist.outcome).result = "failure"
  /\ dst[Last(hist.inserts).dest] # hist.dstT[Last(hist.inserts).dest]

\* the requested list names a table the source's table list does not hold
RequestsMissing ==
  /\ args_tables # NoList
  /\ \E i \in 1..Len(args_tables) : args_tables[i] \notin Range(get_tables)

\* C3: when the requested list is given and holds a name that is not in the
\* source's table list, migrate() reports every such name, in the order and as
\* often as requested, and the run does not start: no table is described, no
\* rows are read, nothing is written to the destination, no confirmation asked.
C3_PlanValidation ==
  RequestsMissing =>
    /\ pc \in {"connect_source", "connect_dest", "resolve", "finally", "exit"}
    /\ idx = 0 /\ ~hist.confirmed /\ ~hist.validated
    /\ hist.selects = <<>> /\ hist.inserts = <<>> /\ hist.outcome = <<>>
    /\ dst = hist.dst0 /\ dst_tx = dst
    /\ out.reason \in {"none", "connect_failed", "error", "interrupted", "invalid_tables"}
    /\ pc \in {"finally", "exit"} => out.reason # "none"
    /\ out.reason = "invalid_tables" =>
         out.missing = SelectSeq(args_tables, LAMBDA t : t \notin Range(get_tables))

\* a request naming two different missing tables around an existing one was
\* refused with both names
C3_Witness ==
  /\ pc = "exit"
  /\ args_tables = <<"g", "a", "h">>
  /\ out.reason = "invalid_tables"
  /\ out.missing = <<"g", "h">>

\* the destination name of a source table: its image under the mapping when it
\* has one, else its own name
Mapped(s) == IF s \in DOMAIN table_mappings THEN table_mappings[s] ELSE s

\* C4: with skip_existing, a plan entry whose destination name (after mapping)
\* is a table of the destination is recorded as skipped, no insert is issued
\* against that table, its rows stay as they were, and migrate() goes on with
\* the next entry; an entry is skipped for no other reason.
C4_SkipExisting ==
  /\ \A e \in 1..Len(hist.outcome) :
       LET o == hist.outcome[e]
       IN /\ o.result = "skipped" <=>
               skip_existing /\ hist.dst0[Mapped(o.source)].exists
          /\ o.result = "skipped" =>
               /\ o.dest = Mapped(o.source)
               /\ InsertsOf(o.entry) = <<>>
               /\ idx > o.entry
  /\ skip_existing =>
       \A d \in DestNames :
         hist.dst0[d].exists =>
           /\ dst[d] = hist.dst0[d] /\ dst_tx[d] = hist.dst0[d]
           /\ \A k \in 1..Len(hist.inserts) : hist.inserts[k].dest # d

\* table a, mapped to the existing destination table x, was skipped and the run
\* went on to summarise a second entry
C4_Witness ==
  /\ Summarised
  /\ Len(hist.outcome) >= 2
  /\ hist.outcome[1].result = "skipped"
  /\ hist.outcome[1].source = "a" /\ hist.outcome[1].dest = "x"
  /\ dst["x"].rows # <<>>

\* C5: for a plan entry with source name s, rows are read from s only and every
\* insert of the entry targets mapping[s] when s is a key of the mapping and s
\* itself otherwise; no row of s ever gets into another destination table.
C5_NameMapping ==
  /\ \A k \in 1..Len(hist.selects) :
       hist.selects[k][2] = selected_tables[hist.selects[k][1]]
  /\ \A k \in 1..Len(hist.inserts) :
       LET i == hist.inserts[k]
       IN /\ i.source = selected_tables[i.entry]
          /\ i.dest = Mapped(i.source)
          /\ Range(i.rows) \subseteq Range(src[i.source])
  /\ pc \in {"fetch", "executemany", "commit", "insert_failed"} =>
       /\ Range(buffer) \cup Range(rows) \subseteq Range(src[selected_tables[idx]])
       /\ dest_table = Mapped(selected_tables[idx])
  /\ \A d \in DestNames : \A r \in Rows(dst[d]) \cup Rows(dst_tx[d]) :
       \/ r \in Rows(hist.dst0[d])
       \/ \E t \in BaseTables : r \in Range(src[t]) /\ Mapped(t) = d

\* rows of source table a were committed to destination table x under the
\* mapping a -> x, and rows of the unmapped table b to b
C5_Witness ==
  /\ table_mappings = ("a" :> "x")
  /\ \E r \in Rows(dst["x"]) : r \in Range(src["a"])
  /\ \E r \in Rows(dst["b"]) : r \in Range(src["b"])
  /\ \E k \in 1..Len(hist.inserts) :
       hist.inserts[k].source = "a" /\ hist.inserts[k].dest = "x"
       /\ hist.inserts[k].err = "none"

\* rows number lo..hi of a table's rows (fewer when the table ends before hi)
Slice(s, lo, hi) == SubSeq(s, lo, IF hi < Len(s) THEN hi ELSE Len(s))

\* C6: a copy of a source table of n rows with batch size b >= 1 that meets no
\* failure issues exactly ceil(n/b) inserts; batch k holds rows (k-1)b+1..kb of
\* the table, so every batch holds at most b rows, every batch but the last
\* exactly b, every source row is in exactly one batch, and an empty table
\* gets no insert. Batches of a copy that fails later are cut the same way.
C6_BatchPartitioning ==
  /\ \A e \in 1..Len(hist.outcome) :
       hist.outcome[e].result = "success" =>
         LET o == hist.outcome[e]
             n == Len(src[o.source])
             B == InsertsOf(o.entry)
         IN /\ o.rows = n
            /\ Len(B) = (n + batch_size - 1) \div batch_size
            /\ n = 0 => B = <<>>
            /\ \A k \in 1..Len(B) : B[k].err = "none"
  /\ \A k \in 1..Len(hist.inserts) :
       LET i == hist.inserts[k]
           B == InsertsOf(i.entry)
       IN \A m \in 1..Len(B) :
            /\ B[m].rows = Slice(src[i.source], (m - 1) * batch_size + 1, m * batch_size)
            /\ Len(B[m].rows) >= 1 /\ Len(B[m].rows) <= batch_size
            /\ m < Len(B) => Len(B[m].rows) = batch_size

\* a five-row table was copied with batch size 2 in three batches of 2, 2 and 1
C6_Witness ==
  /\ batch_size = 2
  /\ hist.outcome # <<>>
  /\ Last(hist.outcome).result = "success"
  /\ Last(hist.outcome).rows = 5
  /\ Len(InsertsOf(Last(hist.outcome).entry)) = 3
  /\ Len(InsertsOf(Last(hist.outcome).entry)[3].rows) = 1

\* the same command line, naming its tables, is run again without skip_existing
\* after a run that copied every table
SecondRun == run >= 2 /\ ~skip_existing /\ args_tables # NoList

NoDuplicateFailure ==
  \A k \in 1..Len(hist.inserts) : hist.inserts[k].err # "unique_violation"

\* C7 (as amended): no batch ever fails because the key of one of its rows is
\* already at the destination, and a second run of the same migration over an
\* unchanged source adds no row to a destination table that has a uniqueness
\* constraint on the key; what it adds to a table without one are source rows
\* of the tables mapped to it, appended after the rows the table held.
C7_Idempotence ==
  /\ NoDuplicateFailure
  /\ SecondRun =>
       \A d \in DestNames :
         /\ dst[d].unique => dst[d] = hist.dst0[d]
         /\ Len(dst[d].rows) >= Len(hist.dst0[d].rows)
         /\ Take(dst[d].rows, Len(hist.dst0[d].rows)) = hist.dst0[d].rows
         /\ \A p \in (Len(hist.dst0[d].rows) + 1)..Len(dst[d].rows) :
              \E t \in Range(selected_tables) :
                Mapped(t) = d /\ dst[d].rows[p] \in Range(src[t])

\* C7 as stated: ... and the second run adds no row to the destination.
C7_SecondRunAddsNoRow ==
  /\ NoDuplicateFailure
  /\ SecondRun => \A d \in DestNames : Len(dst[d].rows) = Len(hist.dst0[d].rows)

\* a second run re-sent two or more rows to a keyed table that already held
\* their keys, every batch was accepted, and the destination is as it was
C7_Witness ==
  /\ SecondRun
  /\ Summarised
  /\ Last(hist.outcome).result = "success"
  /\ Last(hist.outcome).rows >= 2
  /\ dst[Last(hist.outcome).dest].unique
  /\ hist.inserts # <<>>
  /\ \A k \in 1..Len(hist.inserts) : hist.inserts[k].err = "none"
  /\ dst = hist.dst0

\* the copy started last is the one that ended last, and it ended well
LastCopySucceeded ==
  /\ hist.outcome # <<>> /\ hist.selects # <<>>
  /\ Last(hist.outcome).result = "success"
  /\ Last(hist.selects)[1] = Last(hist.outcome).entry

\* the rows of a source table that conflict with the destination table as it
\* was before the copy, or with a row of the same copy that came before them
SkippedAt(tbl, all) == (1..Len(all)) \ KeptAt(tbl, all)

\* C8: after a successful copy the destination table holds, beyond what it held
\* before, as many rows as were read from the source (the count migrate_table
\* returns: all rows of the table) minus those that conflict with a uniqueness
\* constraint of the table, earlier rows of the same copy included.
C8_RowAccounting ==
  LastCopySucceeded =>
    LET o == Last(hist.outcome)
        before == hist.dstT[o.dest]
        read == src[o.source]
    IN /\ o.rows = Len(read)
       /\ Len(dst[o.dest].rows) - Len(before.rows)
            = o.rows - Cardinality(SkippedAt(before, read))
       /\ Take(dst[o.dest].rows, Len(before.rows)) = before.rows

\* three rows were read; one was skipped for the key of an older destination
\* row, one for the key of an earlier row of the copy, one was inserted
C8_Witness ==
  /\ LastCopySucceeded
  /\ Last(hist.outcome).rows = 3
  /\ src[Last(hist.outcome).source] = RowsOf("a", <<1, 2, 2>>)
  /\ hist.dstT["a"] = Table(TRUE, <<OldRow>>)
  /\ dst["a"].rows = <<OldRow, <<2, "a">>>>

\* C9: once both connections are open and the requested tables have passed
\* validation, every execution of migrate() that the operator confirms and does
\* not interrupt ends with the summary, whichever tables fail.
C9_TerminalOutcome ==
  pc = "exit" /\ hist.validated /\ hist.confirmed /\ out.reason # "interrupted"
    => out.reason = "summary"

\* every way main() can end after the migrator is built
ExitReasons == {"connect_failed", "invalid_tables", "no_tables", "cancelled",
                "summary", "interrupted", "error"}

\* C10: when main() has ended, on whichever path (summary, failed connect to
\* either endpoint, refused table list, empty selection, declined confirmation,
\* Ctrl-C, unhandled error), no connection that was opened is still open.
C10_GuaranteedRelease ==
  pc = "exit" =>
    /\ out.reason \in ExitReasons
    /\ source_conn \in {None, "closed"}
    /\ dest_conn \in {None, "closed"}
    /\ dest_conn = "closed" => source_conn = "closed"

\* Ctrl-C arrived between executemany and commit; both connections were closed
\* and the rows of the open transaction never reached the destination
C10_Witness ==
  /\ pc = "exit"
  /\ out.reason = "interrupted"
  /\ source_conn = "closed" /\ dest_conn = "closed"
  /\ hist.inserts # <<>>
  /\ Last(hist.inserts).err = "none"
  /\ Len(hist.progress) < Len(hist.inserts)
  /\ dst = hist.dst0

\* the rows of plan entry e committed so far: the count of its last progress
\* line, 0 when it has none
Committed(e) ==
  LET P == SelectSeq(hist.progress, LAMBDA x : x[1] = e)
  IN IF P = <<>> THEN 0 ELSE Last(P)[2]

\* the destination holds whole batches of the copy started last, and nothing
\* else changed since that copy started
WholeBatches ==
  hist.selects # <<>> =>
    LET e == Last(hist.selects)[1]
        source == Last(hist.selects)[2]
        dest == Mapped(source)
        before == hist.dstT[dest]
        k == Len(SelectSeq(hist.progress, LAMBDA x : x[1] = e))
        n == IF k * batch_size < Len(src[source]) THEN k * batch_size
             ELSE Len(src[source])
    IN /\ Committed(e) = n
       /\ dst[dest].rows = before.rows \o Kept(before, Take(src[source], n))
       /\ \A d \in DestNames \ {dest} : dst[d] = hist.dstT[d]

\* C11: once Ctrl-C has been observed inside migrate() or migrate_table(), the
\* run is on its way out through except KeyboardInterrupt: no batch is read,
\* inserted or committed and no table is started or recorded afterwards, the
\* entry that was being copied is not recorded as a failure, and the destination
\* holds only whole committed batches (the batch in hand is there whole, or not
\* at all).
C11_CancellationAtBatchBoundary ==
  /\ [](hist.interrupted =>
         /\ out.reason = "interrupted"
         /\ pc \in {"finally", "exit"}
         /\ \A k \in 1..Len(hist.outcome) : hist.outcome[k].entry < idx
         /\ WholeBatches
         /\ pc = "exit" => dst_tx = dst)
  /\ [][hist.interrupted =>
         /\ hist' = hist /\ dst' = dst /\ idx' = idx
         /\ pc' = "exit" /\ out' = out]_vars

\* Ctrl-C arrived after the second batch of a table had been inserted and before
\* its commit: the first batch is at the destination, the second is not
C11_Witness ==
  /\ pc = "exit"
  /\ hist.interrupted
  /\ Len(hist.inserts) = 2 /\ Len(hist.progress) = 1
  /\ Last(hist.inserts).err = "none"
  /\ Last(hist.inserts).entry = hist.progress[1][1]
  /\ dst # hist.dst0
  /\ Len(dst[Last(hist.inserts).dest].rows)
       = Len(hist.dst0[Last(hist.inserts).dest].rows) + batch_size

\* C12: an error raised for a plan entry by get_table_info or by table_exists
\* does not end the run: no run that has settled its plan (the information loop
\* or the copy loop is at an entry) leaves through the handler of unexpected
\* errors; it goes on to the next entry and to the summary.
C12_CollaboratorIsolation ==
  idx >= 1 => out.reason # "error"

\* the rows of the tables named by the entries of os that were copied
RECURSIVE SumSuccess(_)
SumSuccess(os) ==
  IF os = <<>> THEN 0
  ELSE (IF Head(os).result = "success" THEN Len(src[Head(os).source]) ELSE 0)
       + SumSuccess(Tail(os))

\* C13: the total migrate() holds, and the total its summary reports, is the sum
\* of the rows read from the source over the entries copied with success;
\* skipped entries and failed entries add nothing, whatever a failed entry had
\* committed before it failed.
C13_AggregateTotal ==
  /\ hist.confirmed /\ ~hist.interrupted => total_rows = SumSuccess(hist.outcome)
  /\ out.reason = "summary" => Summarised /\ out.rows = SumSuccess(hist.outcome)

\* a summary after an entry that failed with a batch committed and an entry that
\* was copied: the total counts the second entry only
C13_Witness ==
  /\ Summarised
  /\ \E e \in 1..Len(hist.outcome) :
       /\ hist.outcome[e].result = "failure"
       /\ Committed(e) > 0
  /\ \E e \in 1..Len(hist.outcome) :
       /\ hist.outcome[e].result = "success"
       /\ hist.outcome[e].rows > 0
  /\ out.rows = SumSuccess(hist.outcome)
  /\ out.rows > 0

RECURSIVE SumRows(_)
SumRows(plan) == IF plan = <<>> THEN 0 ELSE Len(src[Head(plan)]) + SumRows(Tail(plan))

\* what the summary shows of a run over the plan in which every table is copied
AllSucceededResult(plan) == [tables |-> Len(plan), rows |-> SumRows(plan)]

\* C14: the result of a run in which a table failed or was skipped differs from
\* the result of a run in which every table succeeded with the same total; here
\* the run of the same plan over the same source.
C14_SummaryDistinguishes ==
  /\ out.reason = "summary"
  /\ \E e \in 1..Len(hist.outcome) : hist.outcome[e].result # "success"
  => [tables |-> out.tables, rows |-> out.rows] # AllSucceededResult(selected_tables)

ProgressOf(e) == SelectSeq(hist.progress, LAMBDA x : x[1] = e)
AcceptedOf(e) == SelectSeq(hist.inserts, LAMBDA x : x.entry = e /\ x.err = "none")

\* one progress line per committed batch and none for another batch; the count
\* of the k-th line of an entry is the number of source rows in its first k
\* batches
ProgressPerCommit ==
  /\ \A k \in 1..Len(hist.progress) : hist.progress[k][1] \in 1..Len(selected_tables)
  /\ \A e \in 1..Len(selected_tables) :
       LET P == ProgressOf(e)
           n == Len(src[selected_tables[e]])
       IN /\ Len(P) <= Len(AcceptedOf(e))
          /\ Len(AcceptedOf(e)) <= Len(P) + 1
          /\ pc \in {"for_table", "select", "fetch", "executemany", "insert_failed",
                      "summary"} => Len(P) = Len(AcceptedOf(e))
          /\ \A k \in 1..Len(P) :
               /\ P[k][2] = (IF k * batch_size < n THEN k * batch_size ELSE n)
               /\ k > 1 => P[k][2] > P[k - 1][2]
               /\ P[k][2] > 0
  /\ WholeBatches

\* C15 (as amended): within one table's copy a progress line is printed after
\* every batch commit and for no batch that was not committed; the counts are
\* strictly increasing and each equals the number of source rows of the table
\* in the batches committed so far, rows that ON CONFLICT DO NOTHING skipped
\* included (so it can exceed the number of rows the commits added).
C15_Progress == ProgressPerCommit

\* C15 as stated: ... each count equals the number of rows of that table
\* committed so far.
C15_CountsRowsCommitted ==
  /\ ProgressPerCommit
  /\ pc = "fetch" /\ hist.progress # <<>> /\ Last(hist.progress)[1] = idx =>
       Last(hist.progress)[2]
         = Len(dst[dest_table].rows) - Len(hist.dstT[dest_table].rows)

\* three commits of a five-row table with batch size 2 printed 2, 4 and 5
C15_Witness ==
  /\ pc = "fetch"
  /\ batch_size = 2
  /\ ProgressOf(idx) = <<<<idx, 2>>, <<idx, 4>>, <<idx, 5>>>>
  /\ Len(dst[dest_table].rows) < Len(hist.dstT[dest_table].rows) + 5

\* where migrate() is while it runs: entries are taken in plan order, an entry
\* is begun after the one before it has its outcome, and a batch is read whole
\* from the source cursor before it is sent to the destination
OneAtATime ==
  /\ \A k \in 1..Len(hist.outcome) : hist.outcome[k].entry = k
  /\ \A k \in 1..Len(hist.selects) :
       /\ hist.selects[k][1] <= Len(hist.outcome) + 1
       /\ k > 1 => hist.selects[k - 1][1] < hist.selects[k][1]
  /\ \A k \in 1..Len(hist.inserts) :
       /\ \E m \in 1..Len(hist.selects) : hist.selects[m][1] = hist.inserts[k].entry
       /\ k > 1 => hist.inserts[k - 1].entry <= hist.inserts[k].entry
  /\ pc \in CopyPcs \cup {"for_table"} =>
       idx \in 1..Len(selected_tables) /\ Len(hist.outcome) = idx - 1
  /\ pc \in {"executemany", "commit", "insert_failed"} =>
       /\ rows # <<>>
       /\ rows \o buffer = Drop(src[selected_tables[idx]], rows_migrated)
       /\ Last(hist.selects)[1] = idx

\* C16 (as amended): migrate() processes plan entries strictly in plan order,
\* one at a time; the copy of an entry starts only after the previous entry has
\* ended as success, skipped or failure; within a batch the source read
\* completes before the destination write starts; and no plan entry is copied
\* more than once. A source table is copied once for each time the list names
\* it.
C16_ForwardOnly ==
  /\ []OneAtATime
  /\ [][hist.confirmed /\ hist'.confirmed /\ run' = run =>
          /\ idx' \in {idx, idx + 1}
          /\ selected_tables' = selected_tables
          /\ idx' = idx + 1 => Len(hist'.outcome) = idx]_vars

\* C16 as stated: ... and no source table is copied more than once in a run.
C16_NoTableCopiedTwice ==
  /\ OneAtATime
  /\ \A k \in 1..Len(hist.selects) : \A m \in 1..Len(hist.selects) :
       k # m => hist.selects[k][2] # hist.selects[m][2]

\* a run over the list a, b, a copied a, then b, then a again, and summarised
C16_Witness ==
  /\ Summarised
  /\ selected_tables = <<"a", "b", "a">>
  /\ hist.selects = <<<<1, "a">>, <<2, "b">>, <<3, "a">>>>
  /\ \A e \in 1..3 : hist.outcome[e].result = "success"

HasPrefix(s, p) == Len(s) >= Len(p) /\ SubSeq(s, 1, Len(p)) = p
SystemPrefix == <<"p", "g", "_">>
FrameworkPrefix == <<"_", "p", "r", "i", "s", "m", "a">>
\* the base tables whose name starts with neither prefix
Unprefixed ==
  {t \in BaseTables : ~HasPrefix(Chars(t), SystemPrefix)
                      /\ ~HasPrefix(Chars(t), FrameworkPrefix)}

\* C17: get_tables returns, in ascending order of name, every base table whose
\* name starts with neither "pg_" nor "_prisma" and leaves out no other table;
\* so plan validation accepts a request exactly when all its names are such
\* tables, and the names it reports as not found are the requested names that
\* are not: an existing table without these prefixes is never reported.
C17_TableDiscovery ==
  /\ hist.validated => Range(args_tables) \subseteq Unprefixed
  /\ out.reason = "invalid_tables" =>
       /\ out.missing = SelectSeq(args_tables, LAMBDA t : t \notin Unprefixed)
       /\ \A i \in 1..Len(out.missing) : out.missing[i] \notin Unprefixed

C19_ConnectionsUsable ==
  /\ pc \in {"for_table", "select"}
  /\ hist.outcome # <<>>
  /\ Last(hist.outcome).result = "failure"
  => source_tx # "failed" /\ dest_tx # "failed"

\* the answers that are yes or y once trimmed and put in lower case
Affirmative == {"yes", "y", " Yes ", "Y"}

\* C20: until the operator has confirmed, nothing is read for copying, nothing
\* is written and no summary is printed; an answer other than yes or y (trimmed,
\* in any case) makes migrate() return at once, and only yes or y confirms.
C20_ConfirmationGate ==
  /\ [](~hist.confirmed =>
         /\ dst = hist.dst0 /\ dst_tx = dst /\ dest_tx = "idle"
         /\ hist.selects = <<>> /\ hist.inserts = <<>>
         /\ hist.outcome = <<>> /\ hist.progress = <<>>
         /\ out.reason # "summary")
  /\ [](out.reason = "cancelled" => ~hist.confirmed /\ pc \in {"finally", "exit"})
  /\ [][pc = "confirm_test" =>
          /\ answer \notin Affirmative =>
               /\ pc' = "finally"
               /\ out'.reason \in {"cancelled", "interrupted"}
               /\ ~hist'.confirmed
          /\ hist'.confirmed => answer \in Affirmative]_vars

\* the operator answered something else than yes to a run over existing
\* destination tables; the run ended cancelled and wrote nothing
C20_Witness ==
  /\ pc = "exit"
  /\ out.reason = "cancelled"
  /\ Len(selected_tables) >= 2
  /\ idx = Len(selected_tables) + 1
  /\ \E d \in DestNames : dst[d].exists
  /\ dst = hist.dst0
====
